---- MODULE Spec2Model ----
(***************************************************************************)
(* auxbox: playlist (internal/playlist), playback engine (internal/audio), *)
(* position tracker and daemon server (internal/server).                   *)
(*                                                                         *)
(* Three specifications share the variables:                               *)
(*   SpecPlaylist  every public mutator of playlist.Playlist, any order    *)
(*   SpecPlayer    every public method of audio.Player plus the ticker and *)
(*                 the audio-output thread                                 *)
(*   Spec          the daemon: command handlers, position ticker, audio    *)
(*                 output thread, deferred auto-advance                    *)
(*                                                                         *)
(* Volumes are kept as integer hundredths (0.29 is 29), stream positions   *)
(* in samples, tracks as the id of the file they point to.                 *)
(***************************************************************************)
EXTENDS Integers, Sequences, FiniteSets, TLC

VARIABLES playlist, player, volumeControl, positionTracker, speaker, server, ret

vars == <<playlist, player, volumeControl, positionTracker, speaker, server, ret>>

(***************************************************************************)
(* Bounds                                                                  *)
(***************************************************************************)
MaxTracks == 3
StreamLen == 1
MaxCount == 3
MaxMixer == 2
MaxPending == 1
MaxGoroutines == 2

Min(a, b) == IF a < b THEN a ELSE b

(***************************************************************************)
(* shared.Track values: the id of the file; 0 is the nil pointer           *)
(***************************************************************************)
NoTrack == 0
Files == 1 .. (2 * MaxTracks)
ApiFiles == {1, 2}
TrackLists == UNION {[1 .. n -> ApiFiles] : n \in 0 .. MaxTracks}

(***************************************************************************)
(* playlist.Playlist                                                       *)
(***************************************************************************)
NewPlaylist ==
    [tracks |-> <<>>, currentIdx |-> 0, source |-> "", sourceType |-> "",
     isShuffled |-> FALSE]

\* faulty variant: the cursor survives the load
LoadTracksKeepCursor(p, tracks, source, sourceType) ==
    [p EXCEPT !.tracks = tracks, !.source = source, !.sourceType = sourceType,
              !.isShuffled = FALSE]

LoadTracks(p, tracks, source, sourceType) ==
    [p EXCEPT !.tracks = tracks, !.source = source, !.sourceType = sourceType,
              !.currentIdx = 0, !.isShuffled = FALSE]

GetCurrentTrack(p) ==
    IF Len(p.tracks) = 0 \/ p.currentIdx < 0 \/ p.currentIdx >= Len(p.tracks)
    THEN NoTrack
    ELSE p.tracks[p.currentIdx + 1]

GetCurrentIndex(p) == p.currentIdx

TrackCount(p) == Len(p.tracks)

\* rng.Intn(len(p.tracks)) is the input rnd, drawn by the caller from RngRange
RngRange(p) == IF Len(p.tracks) = 0 THEN {0} ELSE 0 .. (Len(p.tracks) - 1)

\* faulty variant: the boundary test is off by one
PlaylistNextOffByOne(p, rnd) ==
    IF Len(p.tracks) = 0 THEN [p |-> p, ok |-> FALSE]
    ELSE IF p.isShuffled THEN [p |-> [p EXCEPT !.currentIdx = rnd], ok |-> TRUE]
    ELSE IF p.currentIdx < Len(p.tracks)
         THEN [p |-> [p EXCEPT !.currentIdx = p.currentIdx + 1], ok |-> TRUE]
         ELSE [p |-> p, ok |-> FALSE]

PlaylistNext(p, rnd) ==
    IF Len(p.tracks) = 0 THEN [p |-> p, ok |-> FALSE]
    ELSE IF p.isShuffled THEN [p |-> [p EXCEPT !.currentIdx = rnd], ok |-> TRUE]
    ELSE IF p.currentIdx < Len(p.tracks) - 1
         THEN [p |-> [p EXCEPT !.currentIdx = p.currentIdx + 1], ok |-> TRUE]
         ELSE [p |-> p, ok |-> FALSE]

\* faulty variant: wraps to the last track at the beginning
PlaylistPreviousWrap(p, rnd) ==
    IF Len(p.tracks) = 0 THEN [p |-> p, ok |-> FALSE]
    ELSE IF p.isShuffled THEN [p |-> [p EXCEPT !.currentIdx = rnd], ok |-> TRUE]
    ELSE IF p.currentIdx > 0
         THEN [p |-> [p EXCEPT !.currentIdx = p.currentIdx - 1], ok |-> TRUE]
         ELSE [p |-> [p EXCEPT !.currentIdx = Len(p.tracks) - 1], ok |-> TRUE]

PlaylistPrevious(p, rnd) ==
    IF Len(p.tracks) = 0 THEN [p |-> p, ok |-> FALSE]
    ELSE IF p.isShuffled THEN [p |-> [p EXCEPT !.currentIdx = rnd], ok |-> TRUE]
    ELSE IF p.currentIdx > 0
         THEN [p |-> [p EXCEPT !.currentIdx = p.currentIdx - 1], ok |-> TRUE]
         ELSE [p |-> p, ok |-> FALSE]

SetCurrentIndex(p, idx) ==
    IF idx < 0 \/ idx >= Len(p.tracks) THEN [p |-> p, ok |-> FALSE]
    ELSE [p |-> [p EXCEPT !.currentIdx = idx], ok |-> TRUE]

Shuffle(p) == [p EXCEPT !.isShuffled = TRUE]

Unshuffle(p) == [p EXCEPT !.isShuffled = FALSE]

\* faulty variant: switches shuffle on instead of flipping it
ToggleShuffleSetsOn(p) ==
    [p |-> [p EXCEPT !.isShuffled = TRUE], ok |-> TRUE]

ToggleShuffle(p) ==
    [p |-> [p EXCEPT !.isShuffled = ~p.isShuffled], ok |-> ~p.isShuffled]

Clear(p) ==
    [p EXCEPT !.tracks = <<>>, !.currentIdx = 0, !.source = "",
              !.sourceType = "", !.isShuffled = FALSE]

\* faulty variant: near the end the window is cut instead of shifted
GetTrackWindowNoShift(p, windowSize) ==
    LET totalTracks == Len(p.tracks)
        contextSize == (windowSize - 1) \div 2
        start0 == p.currentIdx - contextSize
        end0 == p.currentIdx + contextSize
        start1 == IF start0 < 0 THEN 0 ELSE start0
        end1 == IF start0 < 0 THEN end0 - start0 ELSE end0
        end2 == IF end1 >= totalTracks THEN totalTracks - 1 ELSE end1
    IN  IF totalTracks = 0
        THEN [tracks |-> <<>>, startIdx |-> 0, totalCount |-> 0]
        ELSE IF totalTracks <= windowSize
             THEN [tracks |-> p.tracks, startIdx |-> 0,
                   totalCount |-> totalTracks]
             ELSE [tracks |-> SubSeq(p.tracks, start1 + 1, end2 + 1),
                   startIdx |-> start1, totalCount |-> totalTracks]

\* windowSize >= 1, so (windowSize - 1) / 2 is the same in Go and here
GetTrackWindow(p, windowSize) ==
    LET totalTracks == Len(p.tracks)
        contextSize == (windowSize - 1) \div 2
        start0 == p.currentIdx - contextSize
        end0 == p.currentIdx + contextSize
        \* adjust if near start
        start1 == IF start0 < 0 THEN 0 ELSE start0
        end1 == IF start0 < 0 THEN end0 - start0 ELSE end0
        \* adjust if near end
        start2 == IF end1 >= totalTracks
                  THEN start1 - (end1 - totalTracks + 1) ELSE start1
        end2 == IF end1 >= totalTracks THEN totalTracks - 1 ELSE end1
        \* final bounds check
        start3 == IF start2 < 0 THEN 0 ELSE start2
    IN  IF totalTracks = 0
        THEN [tracks |-> <<>>, startIdx |-> 0, totalCount |-> 0]
        ELSE IF totalTracks <= windowSize
             THEN [tracks |-> p.tracks, startIdx |-> 0,
                   totalCount |-> totalTracks]
             ELSE [tracks |-> SubSeq(p.tracks, start3 + 1, end2 + 1),
                   startIdx |-> start3, totalCount |-> totalTracks]

(***************************************************************************)
(* The file system the loader and the decoders see                         *)
(***************************************************************************)
FolderA == [i \in 1 .. MaxTracks |-> i]
FolderB == [i \in 1 .. MaxTracks |-> MaxTracks + i]

\* os.Open / registry.Decode succeed: all of /a, every second file of /b
Readable(f) ==
    \/ f \in 1 .. MaxTracks
    \/ f \in (MaxTracks + 1) .. (2 * MaxTracks) /\ (f - MaxTracks) % 2 = 0

\* os.Open succeeds: the files of /a and /b
Exists(f) == f \in 1 .. (2 * MaxTracks)

Paths == {"", "/a", "/b", "/empty", "/missing"}
PathExists(path) == path \in {"/a", "/b", "/empty"}
FolderFiles(path) ==
    CASE path = "/a" -> FolderA
      [] path = "/b" -> FolderB
      [] OTHER -> <<>>

\* the <<source, path>> pairs clients send with start and play
SourceArgs ==
    {<<"folder", path>> : path \in Paths} \cup {<<"playlist", "/a">>}

(***************************************************************************)
(* audio.FormatDuration and beep.SampleRate.D                              *)
(***************************************************************************)
SampleRate == 2
StreamSamples == StreamLen * SampleRate

\* whole seconds of n samples (FormatDuration drops the fraction anyway)
SampleRateD(n) == n \div SampleRate

Pad2(n) == IF n < 10 THEN "0" \o ToString(n) ELSE ToString(n)

FormatDuration(d) == ToString(d \div 60) \o ":" \o Pad2(d % 60)

(***************************************************************************)
(* PositionTracker                                                         *)
(***************************************************************************)
\* sel: the ticker goroutines waiting in their select; upd: those that have
\* taken a tick and have not come back to the select
NewPositionTracker ==
    [streamer |-> "nil", position |-> "0:00", duration |-> "0:00",
     isPlaying |-> FALSE, ticker |-> FALSE, sel |-> 0, upd |-> 0]

calculateDuration(pt, len) ==
    IF pt.streamer = "nil" THEN [pt EXCEPT !.duration = "0:00"]
    ELSE [pt EXCEPT !.duration = FormatDuration(SampleRateD(len))]

SetStreamer(pt, len) ==
    calculateDuration([pt EXCEPT !.streamer = "live", !.position = "0:00"], len)

\* pt.ticker = nil, and the stop signal, which only a goroutine waiting in
\* its select receives (the send has a default branch)
stopTracking(pt) ==
    IF pt.ticker
    THEN [pt EXCEPT !.ticker = FALSE, !.sel = IF @ > 0 THEN @ - 1 ELSE @]
    ELSE pt

\* a new ticker and a new goroutine
StartTracking(pt) ==
    [stopTracking([pt EXCEPT !.isPlaying = TRUE]) EXCEPT !.ticker = TRUE,
                                                         !.sel = @ + 1]

StopTracking(pt) == stopTracking([pt EXCEPT !.isPlaying = FALSE])

\* smp is what seeker.Position() returned
updatePosition(pt, smp) ==
    IF pt.isPlaying /\ pt.streamer # "nil"
    THEN [pt EXCEPT !.position = FormatDuration(SampleRateD(smp))]
    ELSE pt

GetPositionString(pt) == pt.position

GetDurationString(pt) == pt.duration

TrackerCleanup(pt) ==
    [stopTracking(pt) EXCEPT !.streamer = "nil", !.position = "0:00",
                             !.duration = "0:00", !.isPlaying = FALSE]

(***************************************************************************)
(* VolumeControl                                                           *)
(***************************************************************************)
NoCtrl == [nil |-> TRUE, Paused |-> FALSE, drained |-> FALSE, closed |-> FALSE]
NoVolumeStreamer == [nil |-> TRUE, Volume |-> 0, Silent |-> FALSE]

NewVolumeControl ==
    [volume |-> 100, ctrl |-> NoCtrl, volumeStreamer |-> NoVolumeStreamer]

\* (volume - 1.0) * 2.0, in hundredths
BeepVolume(volume) == (volume - 100) * 2

\* faulty variant: every new stream starts at full gain
SetupWithStreamerFullGain(v) ==
    [v EXCEPT !.volumeStreamer = [nil |-> FALSE, Volume |-> 0, Silent |-> FALSE],
              !.ctrl = [nil |-> FALSE, Paused |-> TRUE, drained |-> FALSE,
                        closed |-> FALSE]]

SetupWithStreamer(v) ==
    [v EXCEPT !.volumeStreamer = [nil |-> FALSE, Volume |-> BeepVolume(v.volume),
                                  Silent |-> (v.volume = 0)],
              !.ctrl = [nil |-> FALSE, Paused |-> TRUE, drained |-> FALSE,
                        closed |-> FALSE]]

VolumeControlSetVolume(v, volume) ==
    IF volume < 0 \/ volume > 100 THEN [v |-> v, err |-> TRUE]
    ELSE [v |-> IF v.volumeStreamer.nil THEN [v EXCEPT !.volume = volume]
                ELSE IF volume = 0
                     THEN [v EXCEPT !.volume = volume,
                                    !.volumeStreamer.Silent = TRUE]
                     ELSE [v EXCEPT !.volume = volume,
                                    !.volumeStreamer.Silent = FALSE,
                                    !.volumeStreamer.Volume = BeepVolume(volume)],
          err |-> FALSE]

VolumeControlCleanup(v) ==
    [v EXCEPT !.volumeStreamer = NoVolumeStreamer, !.ctrl = NoCtrl]

(***************************************************************************)
(* audio.Player.  An engine e is the player with the components it owns:   *)
(* [player, vc (VolumeControl), pt (PositionTracker), speaker].            *)
(* speaker.entries counts how often vc.ctrl sits in the speaker's mixer.   *)
(***************************************************************************)
NoStream == [track |-> NoTrack, pos |-> 0]

\* orphan: the control the mixer still holds after VolumeControl has dropped
\* its pointer to it
\* device: speaker.Init succeeds on the audio hardware
NewSpeaker == [entries |-> 0, orphan |-> NoCtrl, device |-> TRUE]

NewPlayer ==
    [currentTrack |-> NoTrack,
     status |-> [IsPlaying |-> FALSE, IsPaused |-> FALSE, Position |-> "0:00",
                 Duration |-> "0:00", Volume |-> 100],
     streamer |-> NoStream,
     handles |-> 0,
     audioSystem |-> [initialized |-> FALSE],
     onTrackComplete |-> FALSE]

NewEngine ==
    [player |-> NewPlayer, vc |-> NewVolumeControl, pt |-> NewPositionTracker,
     speaker |-> NewSpeaker]

\* streamer.Close(): every holder of the handle now holds a closed one
cleanup(e) ==
    IF e.player.streamer.track # NoTrack
    THEN [e EXCEPT !.player.streamer = NoStream,
                   !.player.handles = @ - 1,
                   !.pt.streamer = IF @ = "live" THEN "closed" ELSE @,
                   !.vc.ctrl.closed = ~e.vc.ctrl.nil]
    ELSE e

stopAndCleanup(e) ==
    LET e1 == [e EXCEPT !.pt = StopTracking(@)]
        e2 == IF ~e1.vc.ctrl.nil
              THEN [e1 EXCEPT !.vc.ctrl.Paused = TRUE,
                              !.speaker.entries = 0,
                              !.speaker.orphan = NoCtrl]
              ELSE e1
        e3 == cleanup(e2)
    IN  [e3 EXCEPT !.player.status.IsPlaying = FALSE,
                   !.player.status.IsPaused = FALSE,
                   !.player.status.Position = "0:00"]

\* speaker.Play(ctrl): one more mixer entry
playInternal(e) ==
    IF e.player.currentTrack = NoTrack THEN [e |-> e, err |-> "no track loaded"]
    ELSE IF e.vc.ctrl.nil THEN [e |-> e, err |-> "audio not initialized"]
    ELSE [e |-> [e EXCEPT !.vc.ctrl.Paused = FALSE,
                          !.speaker.entries = @ + 1,
                          !.player.status.IsPlaying = TRUE,
                          !.player.status.IsPaused = FALSE,
                          !.pt = StartTracking(@)],
          err |-> ""]

\* faulty variant: no test for "already playing"
PlayAlwaysFresh(e) ==
    IF e.player.currentTrack = NoTrack THEN [e |-> e, err |-> "no track loaded"]
    ELSE IF e.vc.ctrl.nil THEN [e |-> e, err |-> "audio not initialized"]
    ELSE IF e.player.status.IsPaused
         THEN [e |-> [e EXCEPT !.vc.ctrl.Paused = FALSE,
                               !.player.status.IsPlaying = TRUE,
                               !.player.status.IsPaused = FALSE,
                               !.pt = StartTracking(@)],
               err |-> ""]
         ELSE playInternal(e)

Play(e) ==
    IF e.player.currentTrack = NoTrack THEN [e |-> e, err |-> "no track loaded"]
    ELSE IF e.vc.ctrl.nil THEN [e |-> e, err |-> "audio not initialized"]
    ELSE IF e.player.status.IsPlaying THEN [e |-> e, err |-> ""]
    ELSE IF e.player.status.IsPaused
         THEN [e |-> [e EXCEPT !.vc.ctrl.Paused = FALSE,
                               !.player.status.IsPlaying = TRUE,
                               !.player.status.IsPaused = FALSE,
                               !.pt = StartTracking(@)],
               err |-> ""]
         ELSE playInternal(e)

\* faulty variant: no test for "playing"
PauseAnyState(e) ==
    IF e.vc.ctrl.nil THEN [e |-> e, err |-> "audio not initialized"]
    ELSE [e |-> [e EXCEPT !.vc.ctrl.Paused = TRUE,
                          !.player.status.IsPlaying = FALSE,
                          !.player.status.IsPaused = TRUE,
                          !.pt = StopTracking(@)],
          err |-> ""]

Pause(e) ==
    IF ~e.player.status.IsPlaying THEN [e |-> e, err |-> "playback is not active"]
    ELSE IF e.vc.ctrl.nil THEN [e |-> e, err |-> "audio not initialized"]
    ELSE [e |-> [e EXCEPT !.vc.ctrl.Paused = TRUE,
                          !.player.status.IsPlaying = FALSE,
                          !.player.status.IsPaused = TRUE,
                          !.pt = StopTracking(@)],
          err |-> ""]

\* faulty variant: IsPaused is left as it was
StopKeepsPaused(e) ==
    LET e1 == IF ~e.vc.ctrl.nil THEN [e EXCEPT !.vc.ctrl.Paused = TRUE] ELSE e
        e2 == IF e1.player.streamer.track # NoTrack
              THEN [e1 EXCEPT !.player.streamer.pos = 0]
              ELSE e1
    IN  [e |-> [e2 EXCEPT !.player.status.IsPlaying = FALSE,
                          !.player.status.Position = "0:00",
                          !.pt = StopTracking(@)],
         err |-> ""]

Stop(e) ==
    LET e1 == IF ~e.vc.ctrl.nil THEN [e EXCEPT !.vc.ctrl.Paused = TRUE] ELSE e
        e2 == IF e1.player.streamer.track # NoTrack
              THEN [e1 EXCEPT !.player.streamer.pos = 0]
              ELSE e1
    IN  [e |-> [e2 EXCEPT !.player.status.IsPlaying = FALSE,
                          !.player.status.IsPaused = FALSE,
                          !.player.status.Position = "0:00",
                          !.pt = StopTracking(@)],
         err |-> ""]

\* AudioSystem.Initialize
Initialize(e) ==
    IF e.player.audioSystem.initialized THEN [e |-> e, err |-> ""]
    ELSE IF e.speaker.device
         THEN [e |-> [e EXCEPT !.player.audioSystem.initialized = TRUE],
               err |-> ""]
         ELSE [e |-> e, err |-> "failed to initialize speaker"]

\* faulty variant: the file is left open when it cannot be decoded
loadAudioFileLeak(e, path) ==
    LET opened == [e EXCEPT !.player.handles = @ + 1]
        e1 == [opened EXCEPT !.player.streamer = [track |-> path, pos |-> 0]]
        init == Initialize(e1)
    IN  IF ~Exists(path) THEN [e |-> e, err |-> "failed to open file"]
        ELSE IF ~Readable(path)
             THEN [e |-> opened, err |-> "unsupported audio format"]
             ELSE IF init.err # ""
                  THEN [e |-> cleanup(e1), err |-> init.err]
                  ELSE [e |-> [init.e EXCEPT
                                  !.pt = SetStreamer(@, StreamSamples),
                                  !.vc = SetupWithStreamer(@)],
                        err |-> ""]

\* handles counts the files opened and not closed
loadAudioFile(e, path) ==
    LET opened == [e EXCEPT !.player.handles = @ + 1]
        e1 == [opened EXCEPT !.player.streamer = [track |-> path, pos |-> 0]]
        init == Initialize(e1)
    IN  IF ~Exists(path) THEN [e |-> e, err |-> "failed to open file"]
        ELSE IF ~Readable(path)
             THEN [e |-> [opened EXCEPT !.player.handles = @ - 1],
                   err |-> "unsupported audio format"]
             ELSE IF init.err # ""
                  THEN [e |-> cleanup(e1), err |-> init.err]
                  ELSE [e |-> [init.e EXCEPT
                                  !.pt = SetStreamer(@, StreamSamples),
                                  !.vc = SetupWithStreamer(@)],
                        err |-> ""]

\* faulty variant: the new track is never started
SetCurrentTrackStops(e, track) ==
    LET e1 == stopAndCleanup(e)
        e2 == [e1 EXCEPT !.player.currentTrack = track,
                         !.player.status.Position = "0:00",
                         !.player.status.IsPlaying = FALSE,
                         !.player.status.IsPaused = FALSE]
        ld == loadAudioFile(e2, track)
    IN  IF track = NoTrack THEN [e2 EXCEPT !.player.status.Duration = "0:00"]
        ELSE IF ld.err # ""
             THEN [ld.e EXCEPT !.player.status.Duration = "0:00",
                               !.player.currentTrack = NoTrack]
             ELSE ld.e

SetCurrentTrack(e, track) ==
    LET wasPlaying == e.player.status.IsPlaying
        e1 == stopAndCleanup(e)
        e2 == [e1 EXCEPT !.player.currentTrack = track,
                         !.player.status.Position = "0:00",
                         !.player.status.IsPlaying = FALSE,
                         !.player.status.IsPaused = FALSE]
        ld == loadAudioFile(e2, track)
    IN  IF track = NoTrack THEN [e2 EXCEPT !.player.status.Duration = "0:00"]
        ELSE IF ld.err # ""
             THEN [ld.e EXCEPT !.player.status.Duration = "0:00",
                               !.player.currentTrack = NoTrack]
             ELSE IF wasPlaying THEN playInternal(ld.e).e ELSE ld.e

PlayerGetCurrentTrack(e) == e.player.currentTrack

GetStatus(e) ==
    [e.player.status EXCEPT !.Position = GetPositionString(e.pt),
                            !.Duration = GetDurationString(e.pt)]

SetVolume(e, volume) ==
    LET r == VolumeControlSetVolume(e.vc, volume)
    IN  [e |-> [e EXCEPT !.player.status.Volume = volume, !.vc = r.v],
         err |-> IF r.err THEN "volume must be between 0.0 and 1.0" ELSE ""]

\* neither ctrl.Paused = true nor speaker.Clear(): a control that is in the
\* mixer stays there, as it is, over the stream that cleanup closes
Close(e) ==
    cleanup([e EXCEPT !.pt = TrackerCleanup(StopTracking(@)),
                      !.vc = VolumeControlCleanup(@),
                      !.speaker.orphan =
                          IF e.speaker.entries > 0 /\ ~e.vc.ctrl.nil
                          THEN [e.vc.ctrl EXCEPT
                                   !.closed = (e.player.streamer.track # NoTrack)]
                          ELSE @])

IsPlaying(e) == e.player.status.IsPlaying

IsPaused(e) == e.player.status.IsPaused

(***************************************************************************)
(* The audio-output thread: one Stream call of the mixer on vc.ctrl        *)
(* (beep.Ctrl over beep.Seq(volumeStreamer, trackEndCallback)).            *)
(* completed tells that trackEndCallback ran in this call.                 *)
(***************************************************************************)
\* faulty variant: the end of the stream stops the player from the callback
CtrlStreamStopsPlayer(e) ==
    IF e.vc.ctrl.drained
    THEN [e |-> [e EXCEPT !.speaker.entries = 0], completed |-> FALSE]
    ELSE IF ~e.vc.ctrl.closed /\ e.player.streamer.pos < StreamSamples
         THEN [e |-> [e EXCEPT !.player.streamer.pos = @ + 1],
               completed |-> FALSE]
         ELSE [e |-> [e EXCEPT !.vc.ctrl.drained = TRUE, !.speaker.entries = 0,
                             !.player.status.IsPlaying = FALSE],
               completed |-> TRUE]

CtrlStream(e) ==
    IF e.vc.ctrl.drained
    THEN [e |-> [e EXCEPT !.speaker.entries = 0], completed |-> FALSE]
    ELSE IF ~e.vc.ctrl.closed /\ e.player.streamer.pos < StreamSamples
         THEN [e |-> [e EXCEPT !.player.streamer.pos = @ + 1],
               completed |-> FALSE]
         ELSE [e |-> [e EXCEPT !.vc.ctrl.drained = TRUE, !.speaker.entries = 0],
               completed |-> TRUE]

(***************************************************************************)
(* shared.Response and the messages of the handlers                        *)
(***************************************************************************)
NoData == [kind |-> "nil"]

NewSuccessResponse(message, args, data) ==
    [Success |-> TRUE, Message |-> message, Args |-> args, Data |-> data]

NewErrorResponse(message, args) ==
    [Success |-> FALSE, Message |-> message, Args |-> args, Data |-> NoData]

\* int(v * 100) on the float64 v = volume / 100.0, for volume in -5 .. 150
IntTimes100(volume) ==
    IF volume \in {29, 57, 58, 113, 114, 115, 116} THEN volume - 1 ELSE volume

(***************************************************************************)
(* commands.NavigationHandler, PlaybackHandler, InfoHandler.               *)
(* A session d is [pl (the playlist), e (the engine)].                     *)
(***************************************************************************)
MaxAttempts == 10

\* the values rng.Intn returns to the successive Next / Previous calls
RndSeqs(p, n) ==
    IF p.isShuffled THEN [1 .. n -> RngRange(p)] ELSE {[i \in 1 .. n |-> 0]}

RECURSIVE SkipLoop(_, _, _, _)
SkipLoop(p, i, count, rnds) ==
    IF i >= count THEN [p |-> p, skipped |-> i]
    ELSE LET r == PlaylistNext(p, rnds[i + 1])
         IN  IF r.ok THEN SkipLoop(r.p, i + 1, count, rnds)
             ELSE [p |-> p, skipped |-> i]

\* faulty variant: no test for "nothing skipped"
HandleSkipNoZeroCheck(d, cmdCount, rnds) ==
    LET count == IF cmdCount <= 0 THEN 1 ELSE cmdCount
        l == SkipLoop(d.pl, 0, count, rnds)
        currentTrack == GetCurrentTrack(l.p)
    IN  IF currentTrack # NoTrack
        THEN [pl |-> l.p, e |-> SetCurrentTrack(d.e, currentTrack),
              resp |-> NewSuccessResponse(
                  "Skipped %d track(s), now playing: %s",
                  <<l.skipped, currentTrack>>, NoData)]
        ELSE [pl |-> l.p, e |-> d.e,
              resp |-> NewSuccessResponse("Skipped %d track(s)",
                                          <<l.skipped>>, NoData)]

HandleSkip(d, cmdCount, rnds) ==
    LET count == IF cmdCount <= 0 THEN 1 ELSE cmdCount
        l == SkipLoop(d.pl, 0, count, rnds)
        currentTrack == GetCurrentTrack(l.p)
    IN  IF l.skipped = 0
        THEN [pl |-> l.p, e |-> d.e,
              resp |-> NewErrorResponse("Already at the end of playlist", <<>>)]
        ELSE IF currentTrack # NoTrack
             THEN [pl |-> l.p, e |-> SetCurrentTrack(d.e, currentTrack),
                   resp |-> NewSuccessResponse(
                       "Skipped %d track(s), now playing: %s",
                       <<l.skipped, currentTrack>>, NoData)]
             ELSE [pl |-> l.p, e |-> d.e,
                   resp |-> NewSuccessResponse("Skipped %d track(s)",
                                               <<l.skipped>>, NoData)]

RECURSIVE BackLoop(_, _, _, _)
BackLoop(p, i, count, rnds) ==
    IF i >= count THEN [p |-> p, moved |-> i]
    ELSE LET r == PlaylistPrevious(p, rnds[i + 1])
         IN  IF r.ok THEN BackLoop(r.p, i + 1, count, rnds)
             ELSE [p |-> p, moved |-> i]

HandleBack(d, cmdCount, rnds) ==
    LET count == IF cmdCount <= 0 THEN 1 ELSE cmdCount
        l == BackLoop(d.pl, 0, count, rnds)
        currentTrack == GetCurrentTrack(l.p)
    IN  IF l.moved = 0
        THEN [pl |-> l.p, e |-> d.e,
              resp |-> NewErrorResponse("Already at the beginning of playlist",
                                        <<>>)]
        ELSE IF currentTrack # NoTrack
             THEN [pl |-> l.p, e |-> SetCurrentTrack(d.e, currentTrack),
                   resp |-> NewSuccessResponse(
                       "Moved back %d track(s), now playing: %s",
                       <<l.moved, currentTrack>>, NoData)]
             ELSE [pl |-> l.p, e |-> d.e,
                   resp |-> NewSuccessResponse("Moved back %d track(s)",
                                               <<l.moved>>, NoData)]

\* the retry loop of HandlePlay; err # "" is an early return
RECURSIVE PlayLoop(_, _, _)
PlayLoop(d, attempts, rnds) ==
    IF attempts >= MaxAttempts THEN [pl |-> d.pl, e |-> d.e, err |-> ""]
    ELSE LET currentTrack == GetCurrentTrack(d.pl)
             e1 == SetCurrentTrack(d.e, currentTrack)
             n == PlaylistNext(d.pl, rnds[attempts + 1])
         IN  IF currentTrack = NoTrack
             THEN [pl |-> d.pl, e |-> d.e,
                   err |-> "No track available from playlist"]
             ELSE IF PlayerGetCurrentTrack(e1) # NoTrack
                  THEN [pl |-> d.pl, e |-> e1, err |-> ""]
                  ELSE IF ~n.ok
                       THEN [pl |-> n.p, e |-> e1,
                             err |-> "No valid tracks found in playlist"]
                       ELSE PlayLoop([pl |-> n.p, e |-> e1], attempts + 1, rnds)

\* faulty variant: one load attempt only
HandlePlayOneAttempt(d, rnds) ==
    LET l == IF PlayerGetCurrentTrack(d.e) = NoTrack
             THEN PlayLoop(d, MaxAttempts - 1, rnds)
             ELSE [pl |-> d.pl, e |-> d.e, err |-> ""]
        r == Play(l.e)
    IN  IF TrackCount(d.pl) = 0
        THEN [pl |-> d.pl, e |-> d.e,
              resp |-> NewErrorResponse("No tracks loaded", <<>>)]
        ELSE IF l.err # ""
             THEN [pl |-> l.pl, e |-> l.e, resp |-> NewErrorResponse(l.err, <<>>)]
             ELSE IF PlayerGetCurrentTrack(l.e) = NoTrack
                  THEN [pl |-> l.pl, e |-> l.e,
                        resp |-> NewErrorResponse(
                            "Failed to load any valid tracks after multiple attempts",
                            <<>>)]
                  ELSE IF r.err # ""
                       THEN [pl |-> l.pl, e |-> r.e,
                             resp |-> NewErrorResponse("Failed to play: %v",
                                                       <<r.err>>)]
                       ELSE [pl |-> l.pl, e |-> r.e,
                             resp |-> NewSuccessResponse(
                                 "Playing: %s",
                                 <<PlayerGetCurrentTrack(r.e)>>, NoData)]

HandlePlay(d, rnds) ==
    LET l == IF PlayerGetCurrentTrack(d.e) = NoTrack
             THEN PlayLoop(d, 0, rnds)
             ELSE [pl |-> d.pl, e |-> d.e, err |-> ""]
        r == Play(l.e)
    IN  IF TrackCount(d.pl) = 0
        THEN [pl |-> d.pl, e |-> d.e,
              resp |-> NewErrorResponse("No tracks loaded", <<>>)]
        ELSE IF l.err # ""
             THEN [pl |-> l.pl, e |-> l.e, resp |-> NewErrorResponse(l.err, <<>>)]
             ELSE IF PlayerGetCurrentTrack(l.e) = NoTrack
                  THEN [pl |-> l.pl, e |-> l.e,
                        resp |-> NewErrorResponse(
                            "Failed to load any valid tracks after multiple attempts",
                            <<>>)]
                  ELSE IF r.err # ""
                       THEN [pl |-> l.pl, e |-> r.e,
                             resp |-> NewErrorResponse("Failed to play: %v",
                                                       <<r.err>>)]
                       ELSE [pl |-> l.pl, e |-> r.e,
                             resp |-> NewSuccessResponse(
                                 "Playing: %s",
                                 <<PlayerGetCurrentTrack(r.e)>>, NoData)]

HandlePause(d) ==
    LET r == Pause(d.e)
    IN  IF r.err # ""
        THEN [pl |-> d.pl, e |-> r.e,
              resp |-> NewErrorResponse("Failed to pause: %v", <<r.err>>)]
        ELSE [pl |-> d.pl, e |-> r.e,
              resp |-> NewSuccessResponse("Playback paused", <<>>, NoData)]

HandleStop(d) ==
    LET r == Stop(d.e)
    IN  IF r.err # ""
        THEN [pl |-> d.pl, e |-> r.e,
              resp |-> NewErrorResponse("Failed to stop: %v", <<r.err>>)]
        ELSE [pl |-> d.pl, e |-> r.e,
              resp |-> NewSuccessResponse("Playback stopped", <<>>, NoData)]

HandleStatus(d) ==
    LET currentTrack == GetCurrentTrack(d.pl)
        status == GetStatus(d.e)
    IN  IF currentTrack = NoTrack
        THEN [pl |-> d.pl, e |-> d.e,
              resp |-> NewSuccessResponse("No track loaded", <<>>, NoData)]
        ELSE [pl |-> d.pl, e |-> d.e,
              resp |-> NewSuccessResponse("Current status", <<>>,
                  [kind |-> "TrackInfo", Filename |-> currentTrack,
                   Duration |-> status.Duration, Position |-> status.Position,
                   TrackNumber |-> GetCurrentIndex(d.pl) + 1,
                   TotalTracks |-> TrackCount(d.pl),
                   Source |-> d.pl.source])]

HandleList(d) ==
    IF Len(d.pl.tracks) = 0
    THEN [pl |-> d.pl, e |-> d.e,
          resp |-> NewSuccessResponse("No tracks loaded", <<>>, NoData)]
    ELSE [pl |-> d.pl, e |-> d.e,
          resp |-> NewSuccessResponse("%d tracks loaded", <<Len(d.pl.tracks)>>,
              [kind |-> "PlaylistInfo", Source |-> d.pl.source,
               SourceType |-> d.pl.sourceType, Tracks |-> d.pl.tracks,
               CurrentIdx |-> GetCurrentIndex(d.pl)])]

HandleVolume(d, cmdVolume) ==
    LET status == GetStatus(d.e)
        r == SetVolume(d.e, cmdVolume)
    IN  IF cmdVolume = -1
        THEN [pl |-> d.pl, e |-> d.e,
              resp |-> NewSuccessResponse("Volume: %d%%",
                                          <<IntTimes100(status.Volume)>>,
                                          [kind |-> "volume",
                                           volume |-> status.Volume])]
        ELSE IF r.err # ""
             THEN [pl |-> d.pl, e |-> r.e,
                   resp |-> NewErrorResponse("Failed to set volume: %v",
                                             <<r.err>>)]
             ELSE IF cmdVolume = 0
                  THEN [pl |-> d.pl, e |-> r.e,
                        resp |-> NewSuccessResponse("Volume set to 0% (muted)",
                                                    <<>>, NoData)]
                  ELSE [pl |-> d.pl, e |-> r.e,
                        resp |-> NewSuccessResponse("Volume set to %d%%",
                                                    <<cmdVolume>>, NoData)]

(***************************************************************************)
(* server.Server                                                           *)
(***************************************************************************)
\* status: the connection goroutine that is inside HandleStatus, with the
\* locals it has read so far (pc 0: no such goroutine)
NoStatusTask ==
    [pc |-> 0, currentTrack |-> NoTrack, Duration |-> "0:00",
     Position |-> "0:00", idx |-> 0, total |-> 0]

\* conns: the connections the listener has accepted whose goroutine has not
\* yet handed its command to the handler, oldest first
NewServer == [isRunning |-> FALSE, pending |-> 0, exited |-> FALSE,
              status |-> NoStatusTask, conns |-> <<>>]

\* Server.LoadFolder / Server.LoadPlaylist over Loader: err or the new playlist
ServerLoad(p, path, source) ==
    IF source = "folder"
    THEN IF PathExists(path)
         THEN [p |-> LoadTracks(p, FolderFiles(path), path, "folder"), err |-> ""]
         ELSE [p |-> p, err |-> "Failed to load folder: %v"]
    ELSE IF source = "playlist"
         THEN [p |-> p, err |-> "Failed to load playlist: %v"]
         ELSE [p |-> p, err |-> "Unsupported source type: %s"]

\* faulty variant: an empty load leaves the playlist as it was
handleStartCommandKeepsList(d, path, source) ==
    LET ld == ServerLoad(d.pl, path, source)
        firstTrack == GetCurrentTrack(ld.p)
    IN  IF path = ""
        THEN [pl |-> d.pl, e |-> d.e,
              resp |-> NewErrorResponse("No path provided for start command",
                                        <<>>)]
        ELSE IF ~PathExists(path)
             THEN [pl |-> d.pl, e |-> d.e,
                   resp |-> NewErrorResponse("Path does not exist: %s",
                                             <<path>>)]
             ELSE IF ld.err # ""
                  THEN [pl |-> d.pl, e |-> d.e,
                        resp |-> NewErrorResponse(ld.err, <<source>>)]
                  ELSE IF TrackCount(ld.p) = 0
                       THEN [pl |-> d.pl, e |-> d.e,
                             resp |-> NewErrorResponse(
                                 "No audio files found in the specified location",
                                 <<>>)]
                       ELSE [pl |-> ld.p,
                             e |-> IF firstTrack # NoTrack
                                   THEN SetCurrentTrack(d.e, firstTrack)
                                   ELSE d.e,
                             resp |-> NewSuccessResponse(
                                 "Loaded %d tracks from %s",
                                 <<TrackCount(ld.p), source>>, NoData)]

handleStartCommand(d, path, source) ==
    LET ld == ServerLoad(d.pl, path, source)
        firstTrack == GetCurrentTrack(ld.p)
    IN  IF path = ""
        THEN [pl |-> d.pl, e |-> d.e,
              resp |-> NewErrorResponse("No path provided for start command",
                                        <<>>)]
        ELSE IF ~PathExists(path)
             THEN [pl |-> d.pl, e |-> d.e,
                   resp |-> NewErrorResponse("Path does not exist: %s",
                                             <<path>>)]
             ELSE IF ld.err # ""
                  THEN [pl |-> d.pl, e |-> d.e,
                        resp |-> NewErrorResponse(ld.err, <<source>>)]
                  ELSE IF TrackCount(ld.p) = 0
                       THEN [pl |-> ld.p, e |-> d.e,
                             resp |-> NewErrorResponse(
                                 "No audio files found in the specified location",
                                 <<>>)]
                       ELSE [pl |-> ld.p,
                             e |-> IF firstTrack # NoTrack
                                   THEN SetCurrentTrack(d.e, firstTrack)
                                   ELSE d.e,
                             resp |-> NewSuccessResponse(
                                 "Loaded %d tracks from %s",
                                 <<TrackCount(ld.p), source>>, NoData)]

\* faulty variant: the first track of the new playlist is not handed to the
\* player before HandlePlay
handlePlayWithSourceNoSet(d, path, source, rnds) ==
    LET ld == ServerLoad(d.pl, path, source)
        play == HandlePlay([pl |-> ld.p, e |-> d.e], rnds)
    IN  IF ~PathExists(path)
        THEN [pl |-> d.pl, e |-> d.e,
              resp |-> NewErrorResponse("Path does not exist: %s", <<path>>)]
        ELSE IF ld.err # ""
             THEN [pl |-> d.pl, e |-> d.e,
                   resp |-> NewErrorResponse(ld.err, <<source>>)]
             ELSE IF TrackCount(ld.p) = 0
                  THEN [pl |-> ld.p, e |-> d.e,
                        resp |-> NewErrorResponse(
                            "No audio files found in the specified location",
                            <<>>)]
                  ELSE IF ~play.resp.Success THEN play
                       ELSE [pl |-> play.pl, e |-> play.e,
                             resp |-> NewSuccessResponse(
                                 "Loaded %d tracks from %s and started playback",
                                 <<TrackCount(ld.p), source>>, NoData)]

handlePlayWithSource(d, path, source, rnds) ==
    LET ld == ServerLoad(d.pl, path, source)
        firstTrack == GetCurrentTrack(ld.p)
        e1 == IF firstTrack # NoTrack THEN SetCurrentTrack(d.e, firstTrack)
              ELSE d.e
        play == HandlePlay([pl |-> ld.p, e |-> e1], rnds)
    IN  IF ~PathExists(path)
        THEN [pl |-> d.pl, e |-> d.e,
              resp |-> NewErrorResponse("Path does not exist: %s", <<path>>)]
        ELSE IF ld.err # ""
             THEN [pl |-> d.pl, e |-> d.e,
                   resp |-> NewErrorResponse(ld.err, <<source>>)]
             ELSE IF TrackCount(ld.p) = 0
                  THEN [pl |-> ld.p, e |-> d.e,
                        resp |-> NewErrorResponse(
                            "No audio files found in the specified location",
                            <<>>)]
                  ELSE IF ~play.resp.Success THEN play
                       ELSE [pl |-> play.pl, e |-> play.e,
                             resp |-> NewSuccessResponse(
                                 "Loaded %d tracks from %s and started playback",
                                 <<TrackCount(ld.p), source>>, NoData)]

handlePlayCommand(d, path, source, rnds) ==
    IF path # "" /\ source # "" THEN handlePlayWithSource(d, path, source, rnds)
    ELSE HandlePlay(d, rnds)

\* faulty variant: the next track is loaded and not started
autoAdvanceNoPlay(d, rnd) ==
    LET n == PlaylistNext(d.pl, rnd)
        nextTrack == GetCurrentTrack(n.p)
    IN  IF n.ok /\ nextTrack # NoTrack
        THEN [pl |-> n.p, e |-> SetCurrentTrack(d.e, nextTrack)]
        ELSE [pl |-> n.p, e |-> d.e]

\* the goroutine onTrackComplete starts, after its sleep
autoAdvance(d, rnd) ==
    LET n == PlaylistNext(d.pl, rnd)
        nextTrack == GetCurrentTrack(n.p)
    IN  IF n.ok /\ nextTrack # NoTrack
        THEN [pl |-> n.p, e |-> Play(SetCurrentTrack(d.e, nextTrack)).e]
        ELSE [pl |-> n.p, e |-> d.e]

(***************************************************************************)
(* State                                                                   *)
(***************************************************************************)
Engine == [player |-> player, vc |-> volumeControl, pt |-> positionTracker,
           speaker |-> speaker]

Session == [pl |-> playlist, e |-> Engine]

SetEngine(e) ==
    /\ e.speaker.entries <= MaxMixer
    /\ e.pt.sel + e.pt.upd <= MaxGoroutines
    /\ player' = e.player
    /\ volumeControl' = e.vc
    /\ positionTracker' = e.pt
    /\ speaker' = e.speaker

EngineUnchanged == UNCHANGED <<player, volumeControl, positionTracker, speaker>>

NoRet == [op |-> "", arg |-> <<>>, out |-> <<>>]

\* after NewServer(): the player has the server's completion callback
Init ==
    /\ playlist = NewPlaylist
    /\ player = [NewPlayer EXCEPT !.onTrackComplete = TRUE]
    /\ volumeControl = NewVolumeControl
    /\ positionTracker = NewPositionTracker
    /\ speaker = NewSpeaker
    /\ server = NewServer
    /\ ret = NoRet

(***************************************************************************)
(* Playlist API steps (SpecPlaylist)                                       *)
(***************************************************************************)
OnlyPlaylist == EngineUnchanged /\ UNCHANGED server

PlLoadTracks(tracks) ==
    /\ playlist' = LoadTracks(playlist, tracks, "/path", "folder")
    /\ ret' = [op |-> "LoadTracks", arg |-> tracks, out |-> <<>>]
    /\ OnlyPlaylist

PlNext(rnd) ==
    /\ playlist' = PlaylistNext(playlist, rnd).p
    /\ ret' = [op |-> "Next", arg |-> <<>>, out |-> PlaylistNext(playlist, rnd).ok]
    /\ OnlyPlaylist

PlPrevious(rnd) ==
    /\ playlist' = PlaylistPrevious(playlist, rnd).p
    /\ ret' = [op |-> "Previous", arg |-> <<>>,
               out |-> PlaylistPrevious(playlist, rnd).ok]
    /\ OnlyPlaylist

PlSetCurrentIndex(idx) ==
    /\ playlist' = SetCurrentIndex(playlist, idx).p
    /\ ret' = [op |-> "SetCurrentIndex", arg |-> idx,
               out |-> SetCurrentIndex(playlist, idx).ok]
    /\ OnlyPlaylist

PlToggleShuffle ==
    /\ playlist' = ToggleShuffle(playlist).p
    /\ ret' = [op |-> "ToggleShuffle", arg |-> <<>>,
               out |-> ToggleShuffle(playlist).ok]
    /\ OnlyPlaylist

PlShuffle ==
    /\ playlist' = Shuffle(playlist)
    /\ ret' = [op |-> "Shuffle", arg |-> <<>>, out |-> <<>>]
    /\ OnlyPlaylist

PlUnshuffle ==
    /\ playlist' = Unshuffle(playlist)
    /\ ret' = [op |-> "Unshuffle", arg |-> <<>>, out |-> <<>>]
    /\ OnlyPlaylist

PlClear ==
    /\ playlist' = Clear(playlist)
    /\ ret' = [op |-> "Clear", arg |-> <<>>, out |-> <<>>]
    /\ OnlyPlaylist

IndexArgs == -1 .. (MaxTracks + 1)

NextPlaylist ==
    \/ \E tracks \in TrackLists : PlLoadTracks(tracks)
    \/ \E rnd \in RngRange(playlist) : PlNext(rnd)
    \/ \E rnd \in RngRange(playlist) : PlPrevious(rnd)
    \/ \E idx \in IndexArgs : PlSetCurrentIndex(idx)
    \/ PlToggleShuffle
    \/ PlShuffle
    \/ PlUnshuffle
    \/ PlClear

SpecPlaylist == Init /\ [][NextPlaylist]_vars

(***************************************************************************)
(* Long playlists: GetTrackWindow and the list handler (SpecWindow)        *)
(***************************************************************************)
MaxList == 18
MaxWindow == 16

\* the window of the list view, and the example of the user guide:
\* "Tracks (5763 total, showing 2429-2443)"
ListWindow == 15
GuideTotal == 5763
GuideFirstRow == 2429
GuideCursor == GuideFirstRow - 1 + ((ListWindow - 1) \div 2)

\* a playlist of n tracks is loaded from the files 1 .. n
WindowTotals == (0 .. MaxList) \cup {GuideTotal}
WindowCursors == (0 .. MaxList) \cup {GuideCursor, GuideTotal - 1}
WindowSizes == 1 .. MaxWindow

InitWindow ==
    /\ playlist \in {LoadTracks(NewPlaylist, [i \in 1 .. n |-> i], "/path", "folder") :
                        n \in WindowTotals}
    /\ player = NewPlayer
    /\ volumeControl = NewVolumeControl
    /\ positionTracker = NewPositionTracker
    /\ speaker = NewSpeaker
    /\ server = NewServer
    /\ ret = NoRet

WGetTrackWindow(windowSize) ==
    /\ ret' = [op |-> "GetTrackWindow", arg |-> windowSize,
               out |-> GetTrackWindow(playlist, windowSize)]
    /\ UNCHANGED playlist
    /\ OnlyPlaylist

WHandleList ==
    /\ ret' = [op |-> "list", arg |-> <<>>, out |-> HandleList(Session).resp]
    /\ UNCHANGED playlist
    /\ OnlyPlaylist

NextWindow ==
    \/ \E idx \in WindowCursors : PlSetCurrentIndex(idx)
    \/ \E windowSize \in WindowSizes : WGetTrackWindow(windowSize)
    \/ WHandleList

SpecWindow == InitWindow /\ [][NextWindow]_vars

(***************************************************************************)
(* Player API steps, the position ticker and the audio thread (SpecPlayer) *)
(***************************************************************************)
PlayerVolumes == {-5, 0, 29, 100, 150}
PlayerTracks == {NoTrack, 1, 2, MaxTracks + 1}

InitPlayer ==
    /\ playlist = NewPlaylist
    /\ player = NewPlayer
    /\ volumeControl = NewVolumeControl
    /\ positionTracker = NewPositionTracker
    /\ speaker = NewSpeaker
    /\ server = NewServer
    /\ ret = NoRet

OnlyEngine == UNCHANGED <<playlist, server>>

PSetCurrentTrack(track) ==
    /\ ~server.exited
    /\ SetEngine(SetCurrentTrack(Engine, track))
    /\ ret' = [op |-> "SetCurrentTrack", arg |-> track, out |-> <<>>]
    /\ OnlyEngine

PPlay ==
    /\ ~server.exited
    /\ SetEngine(Play(Engine).e)
    /\ ret' = [op |-> "Play", arg |-> <<>>, out |-> Play(Engine).err]
    /\ OnlyEngine

PPause ==
    /\ ~server.exited
    /\ SetEngine(Pause(Engine).e)
    /\ ret' = [op |-> "Pause", arg |-> <<>>, out |-> Pause(Engine).err]
    /\ OnlyEngine

PStop ==
    /\ ~server.exited
    /\ SetEngine(Stop(Engine).e)
    /\ ret' = [op |-> "Stop", arg |-> <<>>, out |-> Stop(Engine).err]
    /\ OnlyEngine

PSetVolume(volume) ==
    /\ ~server.exited
    /\ SetEngine(SetVolume(Engine, volume).e)
    /\ ret' = [op |-> "SetVolume", arg |-> volume,
               out |-> SetVolume(Engine, volume).err]
    /\ OnlyEngine

PGetStatus ==
    /\ ~server.exited
    /\ ret' = [op |-> "GetStatus", arg |-> <<>>, out |-> GetStatus(Engine)]
    /\ EngineUnchanged
    /\ OnlyEngine

PClose ==
    /\ ~server.exited
    /\ SetEngine(Close(Engine))
    /\ server' = [server EXCEPT !.exited = TRUE]
    /\ ret' = [op |-> "Close", arg |-> <<>>, out |-> ""]
    /\ UNCHANGED playlist

\* what seeker.Position() gives the ticker goroutine
SampleOutcomes ==
    IF positionTracker.streamer = "live" THEN {player.streamer.pos}
    ELSE 0 .. StreamSamples

Tick ==
    /\ ~server.exited
    /\ positionTracker.ticker
    /\ \E smp \in SampleOutcomes :
           positionTracker' = updatePosition(positionTracker, smp)
    /\ ret' = [op |-> "tick", arg |-> <<>>, out |-> <<>>]
    /\ UNCHANGED <<playlist, player, volumeControl, speaker, server>>

\* the speaker pulls the next samples from vc.ctrl; at the end of the stream
\* trackEndCallback calls onTrackComplete, which starts the advance goroutine
SpeakerPull ==
    /\ ~server.exited
    /\ speaker.entries > 0
    /\ ~volumeControl.ctrl.nil
    /\ ~volumeControl.ctrl.Paused
    /\ LET r == CtrlStream(Engine)
           fire == r.completed /\ player.onTrackComplete
       IN  /\ SetEngine(r.e)
           /\ fire => server.pending < MaxPending
           /\ server' = IF fire THEN [server EXCEPT !.pending = @ + 1]
                        ELSE server
    /\ ret' = [op |-> "stream", arg |-> <<>>, out |-> <<>>]
    /\ UNCHANGED playlist

NextPlayer ==
    \/ \E track \in PlayerTracks : PSetCurrentTrack(track)
    \/ PPlay
    \/ PPause
    \/ PStop
    \/ \E volume \in PlayerVolumes : PSetVolume(volume)
    \/ PGetStatus
    \/ PClose
    \/ Tick
    \/ SpeakerPull

SpecPlayer == InitPlayer /\ [][NextPlayer]_vars

(***************************************************************************)
(* The daemon (Spec): cli.runDaemonProcess, then one step per command the  *)
(* transport hands to Server.handleCommand, per tick, per audio callback   *)
(* and per goroutine the server starts.                                    *)
(***************************************************************************)
CmdVolumes == {-1, 0, 150}
CmdCounts == 0 .. MaxCount

Command(type, count, volume, source, path, shuffle) ==
    [Type |-> type, Count |-> count, Volume |-> volume, Source |-> source,
     Path |-> path, Shuffle |-> shuffle]

Running == server.isRunning /\ ~server.exited

\* the handler's result r becomes the state, its response goes to the client
Respond(cmd, r) ==
    /\ playlist' = r.pl
    /\ SetEngine(r.e)
    /\ ret' = [op |-> cmd.Type,
               arg |-> IF cmd.Type \in {"skip", "back"} THEN cmd.Count
                       ELSE IF cmd.Type = "play"
                            THEN [Path |-> cmd.Path, Source |-> cmd.Source,
                                  Shuffle |-> cmd.Shuffle]
                            ELSE <<>>,
               out |-> r.resp]
    /\ UNCHANGED server

\* LoadFolder / LoadPlaylist, then Start(); os.Exit(1) when the load fails
RunDaemonProcess(path, source) ==
    /\ ~server.isRunning
    /\ ~server.exited
    /\ LET ld == ServerLoad(playlist, path, source)
       IN  /\ playlist' = ld.p
           /\ server' = IF ld.err # "" THEN [server EXCEPT !.exited = TRUE]
                        ELSE [server EXCEPT !.isRunning = TRUE]
    /\ ret' = [op |-> "runDaemonProcess", arg |-> <<>>, out |-> <<>>]
    /\ EngineUnchanged

CmdStart(path, source) ==
    /\ Running
    /\ Respond(Command("start", 0, 0, source, path, FALSE),
               handleStartCommand(Session, path, source))

\* the server reads Path and Source of a play command, never Shuffle
CmdPlay(path, source, shuffle) ==
    /\ Running
    /\ \E rnds \in RndSeqs(playlist, MaxAttempts) :
           Respond(Command("play", 0, 0, source, path, shuffle),
                   handlePlayCommand(Session, path, source, rnds))

CmdPause ==
    /\ Running
    /\ Respond(Command("pause", 0, 0, "", "", FALSE), HandlePause(Session))

CmdStop ==
    /\ Running
    /\ Respond(Command("stop", 0, 0, "", "", FALSE), HandleStop(Session))

CmdSkip(count) ==
    /\ Running
    /\ \E rnds \in RndSeqs(playlist, MaxCount) :
           Respond(Command("skip", count, 0, "", "", FALSE),
                   HandleSkip(Session, count, rnds))

CmdBack(count) ==
    /\ Running
    /\ \E rnds \in RndSeqs(playlist, MaxCount) :
           Respond(Command("back", count, 0, "", "", FALSE),
                   HandleBack(Session, count, rnds))

CmdStatus ==
    /\ Running
    /\ Respond(Command("status", 0, 0, "", "", FALSE), HandleStatus(Session))

CmdList ==
    /\ Running
    /\ Respond(Command("list", 0, 0, "", "", FALSE), HandleList(Session))

CmdVolume(volume) ==
    /\ Running
    /\ Respond(Command("volume", 0, volume, "", "", FALSE),
               HandleVolume(Session, volume))

\* handleExitCommand: the answer, and the goroutine it starts, which without
\* delay runs player.Close(), s.Stop() and os.Exit(0)
CmdExit ==
    /\ Running
    /\ SetEngine(Stop(Close(Engine)).e)
    /\ server' = [server EXCEPT !.isRunning = FALSE, !.exited = TRUE]
    /\ ret' = [op |-> "exit", arg |-> <<>>,
               out |-> NewSuccessResponse("Exiting daemon", <<>>, NoData)]
    /\ UNCHANGED playlist

\* the default branch of handleCommand
UnknownTypes == {"shuffle", "repeat"}

CmdUnknown(type) ==
    /\ Running
    /\ ret' = [op |-> type, arg |-> <<>>,
               out |-> NewErrorResponse("Unknown command: %s", <<type>>)]
    /\ UNCHANGED <<playlist, server>>
    /\ EngineUnchanged

\* the goroutine of onTrackComplete
AutoAdvance ==
    /\ ~server.exited
    /\ server.pending > 0
    /\ \E rnd \in RngRange(playlist) :
           LET r == autoAdvance(Session, rnd)
           IN  /\ playlist' = r.pl
               /\ SetEngine(r.e)
    /\ server' = [server EXCEPT !.pending = @ - 1]
    /\ ret' = [op |-> "autoAdvance",
               arg |-> [after |-> ret.op,
                        path |-> IF ret.op = "play" THEN ret.arg.Path ELSE ""],
               out |-> <<>>]

Next ==
    \/ \E a \in SourceArgs : RunDaemonProcess(a[2], a[1])
    \/ \E a \in SourceArgs : CmdStart(a[2], a[1])
    \/ \E a \in SourceArgs \cup {<<"", "">>}, shuffle \in BOOLEAN :
           CmdPlay(a[2], a[1], shuffle)
    \/ CmdPause
    \/ CmdStop
    \/ \E count \in CmdCounts : CmdSkip(count)
    \/ \E count \in CmdCounts : CmdBack(count)
    \/ CmdStatus
    \/ CmdList
    \/ \E volume \in CmdVolumes : CmdVolume(volume)
    \/ CmdExit
    \/ \E type \in UnknownTypes : CmdUnknown(type)
    \/ AutoAdvance
    \/ Tick
    \/ SpeakerPull

Spec == Init /\ [][Next]_vars

(***************************************************************************)
(* The status handler read by read (SpecStatus).  Every connection has its *)
(* own goroutine (transport Listen), HandleStatus takes no session lock,   *)
(* and each of its reads takes and releases the playlist's or the player's *)
(* lock: the other handlers and the advance goroutine run between them.    *)
(***************************************************************************)
StatusGetCurrentTrack ==
    /\ Running
    /\ server.status.pc = 0
    /\ IF GetCurrentTrack(playlist) = NoTrack
       THEN /\ ret' = [op |-> "status", arg |-> <<>>,
                       out |-> NewSuccessResponse("No track loaded", <<>>,
                                                  NoData)]
            /\ UNCHANGED server
       ELSE /\ server' = [server EXCEPT
                              !.status.pc = 1,
                              !.status.currentTrack = GetCurrentTrack(playlist)]
            /\ UNCHANGED ret
    /\ UNCHANGED playlist
    /\ EngineUnchanged

StatusGetStatus ==
    /\ Running
    /\ server.status.pc = 1
    /\ server' = [server EXCEPT !.status.pc = 2,
                                !.status.Duration = GetStatus(Engine).Duration,
                                !.status.Position = GetStatus(Engine).Position]
    /\ UNCHANGED <<playlist, ret>>
    /\ EngineUnchanged

StatusGetCurrentIndex ==
    /\ Running
    /\ server.status.pc = 2
    /\ server' = [server EXCEPT !.status.pc = 3,
                                !.status.idx = GetCurrentIndex(playlist)]
    /\ UNCHANGED <<playlist, ret>>
    /\ EngineUnchanged

StatusTrackCount ==
    /\ Running
    /\ server.status.pc = 3
    /\ server' = [server EXCEPT !.status.pc = 4,
                                !.status.total = TrackCount(playlist)]
    /\ UNCHANGED <<playlist, ret>>
    /\ EngineUnchanged

\* GetSource(), and the response goes to the client
StatusReturn ==
    /\ Running
    /\ server.status.pc = 4
    /\ ret' = [op |-> "status", arg |-> <<>>,
               out |-> NewSuccessResponse("Current status", <<>>,
                   [kind |-> "TrackInfo",
                    Filename |-> server.status.currentTrack,
                    Duration |-> server.status.Duration,
                    Position |-> server.status.Position,
                    TrackNumber |-> server.status.idx + 1,
                    TotalTracks |-> server.status.total,
                    Source |-> playlist.source])]
    /\ server' = [server EXCEPT !.status = NoStatusTask]
    /\ UNCHANGED playlist
    /\ EngineUnchanged

FolderArgs == {<<"folder", "/a">>, <<"folder", "/b">>, <<"folder", "/empty">>}

NextStatus ==
    \/ \E a \in FolderArgs : RunDaemonProcess(a[2], a[1])
    \/ \E a \in FolderArgs : CmdStart(a[2], a[1])
    \/ \E a \in FolderArgs \cup {<<"", "">>} : CmdPlay(a[2], a[1], FALSE)
    \/ \E count \in CmdCounts : CmdSkip(count)
    \/ \E count \in CmdCounts : CmdBack(count)
    \/ AutoAdvance
    \/ SpeakerPull
    \/ StatusGetCurrentTrack
    \/ StatusGetStatus
    \/ StatusGetCurrentIndex
    \/ StatusTrackCount
    \/ StatusReturn

SpecStatus == Init /\ [][NextStatus]_vars

(***************************************************************************)
(* The daemon on a folder of files that cannot be opened (SpecRetry): the  *)
(* folder /c holds a run of unreadable files, with or without a readable  *)
(* file before it and after it.                                            *)
(***************************************************************************)
MaxBad == 11

BadThenGood(lead, bad, good) ==
    [i \in 1 .. (lead + bad + good) |->
        IF i <= lead THEN 2
        ELSE IF i <= lead + bad THEN 2 * MaxTracks + i ELSE 1]

RetryLists ==
    {BadThenGood(lead, bad, good) :
        lead \in 0 .. 1, bad \in 0 .. MaxBad, good \in 0 .. 1}

\* after runDaemonProcess on /c
InitRetry ==
    /\ playlist \in {LoadTracks(NewPlaylist, tracks, "/c", "folder") :
                          tracks \in RetryLists \ {<<>>}}
    /\ player = [NewPlayer EXCEPT !.onTrackComplete = TRUE]
    /\ volumeControl = NewVolumeControl
    /\ positionTracker = NewPositionTracker
    /\ speaker = NewSpeaker
    /\ server = [NewServer EXCEPT !.isRunning = TRUE]
    /\ ret = NoRet

NextRetry ==
    \/ CmdPlay("", "", FALSE)
    \/ CmdStop
    \/ \E count \in CmdCounts : CmdSkip(count)
    \/ \E count \in CmdCounts : CmdBack(count)
    \/ SpeakerPull
    \/ AutoAdvance

SpecRetry == InitRetry /\ [][NextRetry]_vars

(***************************************************************************)
(* The ticker goroutine step by step (SpecTracker).  The goroutine of      *)
(* StartTracking loops over select { <-pt.ticker.C ; <-pt.stopChan }: it   *)
(* reads pt.ticker each time it comes back to the select, without the      *)
(* tracker's lock, and updatePosition waits for that lock.                 *)
(***************************************************************************)
\* a goroutine receives from pt.ticker.C
TickReceive ==
    /\ ~server.exited
    /\ positionTracker.ticker
    /\ positionTracker.sel > 0
    /\ positionTracker' = [positionTracker EXCEPT !.sel = @ - 1, !.upd = @ + 1]
    /\ ret' = [op |-> "tick", arg |-> <<>>, out |-> <<>>]
    /\ UNCHANGED <<playlist, player, volumeControl, speaker, server>>

\* updatePosition(), and back to the select: pt.ticker.C with pt.ticker nil
\* is a nil pointer dereference, which ends the process
TickLoop ==
    /\ ~server.exited
    /\ positionTracker.upd > 0
    /\ \E smp \in SampleOutcomes :
           LET pt == updatePosition(positionTracker, smp)
           IN  IF pt.ticker
               THEN /\ positionTracker' = [pt EXCEPT !.upd = @ - 1,
                                                     !.sel = @ + 1]
                    /\ ret' = [op |-> "tick", arg |-> <<>>, out |-> <<>>]
                    /\ UNCHANGED server
               ELSE /\ positionTracker' = [pt EXCEPT !.upd = @ - 1]
                    /\ ret' = [op |-> "panic", arg |-> <<>>,
                               out |-> "nil pointer dereference"]
                    /\ server' = [server EXCEPT !.isRunning = FALSE,
                                                !.exited = TRUE]
    /\ UNCHANGED <<playlist, player, volumeControl, speaker>>

NextTracker ==
    \/ RunDaemonProcess("/a", "folder")
    \/ \E a \in FolderArgs : CmdStart(a[2], a[1])
    \/ CmdPlay("", "", FALSE)
    \/ CmdPause
    \/ CmdStop
    \/ \E count \in CmdCounts : CmdSkip(count)
    \/ \E count \in CmdCounts : CmdBack(count)
    \/ CmdExit
    \/ AutoAdvance
    \/ SpeakerPull
    \/ TickReceive
    \/ TickLoop

SpecTracker == Init /\ [][NextTracker]_vars

(***************************************************************************)
(* Loading files that exist or not, decode or not, on audio hardware that  *)
(* works or not (SpecLoad)                                                 *)
(***************************************************************************)
LoadFiles == {NoTrack, 1, 2, MaxTracks + 1, 2 * MaxTracks + 1}

InitLoad ==
    /\ playlist = NewPlaylist
    /\ player = NewPlayer
    /\ volumeControl = NewVolumeControl
    /\ positionTracker = NewPositionTracker
    /\ speaker \in {[NewSpeaker EXCEPT !.device = b] : b \in BOOLEAN}
    /\ server = NewServer
    /\ ret = NoRet

\* the audio hardware appears or disappears
DeviceChange ==
    /\ ~server.exited
    /\ speaker' = [speaker EXCEPT !.device = ~@]
    /\ ret' = [op |-> "device", arg |-> <<>>, out |-> <<>>]
    /\ UNCHANGED <<playlist, player, volumeControl, positionTracker, server>>

NextLoad ==
    \/ \E track \in LoadFiles : PSetCurrentTrack(track)
    \/ PPlay
    \/ PPause
    \/ PStop
    \/ PClose
    \/ SpeakerPull
    \/ DeviceChange

SpecLoad == InitLoad /\ [][NextLoad]_vars

(***************************************************************************)
(* The listener and its connections (SpecTransport).  Listen accepts a     *)
(* connection and starts `go u.handleConnection(conn, handler)`; each      *)
(* goroutine reads its command from its socket and calls the handler.      *)
(* Nothing orders the goroutines: any accepted connection may be the next  *)
(* one whose command reaches Server.handleCommand.                         *)
(***************************************************************************)
MaxConns == 2

ConnTypes == {"play", "pause", "stop", "skip", "status", "list"}

\* the switch of Server.handleCommand
handleCommand(d, cmd, rnds) ==
    CASE cmd.Type = "play" -> handlePlayCommand(d, cmd.Path, cmd.Source, rnds)
      [] cmd.Type = "pause" -> HandlePause(d)
      [] cmd.Type = "stop" -> HandleStop(d)
      [] cmd.Type = "skip" -> HandleSkip(d, cmd.Count, rnds)
      [] cmd.Type = "status" -> HandleStatus(d)
      [] cmd.Type = "list" -> HandleList(d)

\* listener.Accept() returns a connection and its goroutine is started
Accept(type) ==
    /\ Running
    /\ Len(server.conns) < MaxConns
    /\ server' = [server EXCEPT !.conns = Append(@, type)]
    /\ ret' = [op |-> "accept", arg |-> type, out |-> <<>>]
    /\ UNCHANGED playlist
    /\ EngineUnchanged

\* the handler's result r becomes the state, the i-th connection is answered
\* and closed
RespondConn(i, cmd, r) ==
    /\ playlist' = r.pl
    /\ SetEngine(r.e)
    /\ ret' = [op |-> cmd.Type, arg |-> i, out |-> r.resp]
    /\ server' = [server EXCEPT
                      !.conns = SubSeq(server.conns, 1, i - 1)
                                \o SubSeq(server.conns, i + 1, Len(server.conns))]

\* the goroutine of the i-th accepted connection reads its command and
\* calls the handler
HandleConnection(i) ==
    /\ Running
    /\ i \in DOMAIN server.conns
    /\ \E rnds \in RndSeqs(playlist, MaxAttempts) :
           RespondConn(i, Command(server.conns[i], 1, 0, "", "", FALSE),
                       handleCommand(Session,
                                     Command(server.conns[i], 1, 0, "", "", FALSE),
                                     rnds))

NextTransport ==
    \/ RunDaemonProcess("/a", "folder")
    \/ \E type \in ConnTypes : Accept(type)
    \/ \E i \in 1 .. MaxConns : HandleConnection(i)
    \/ CmdExit
    \/ SpeakerPull

SpecTransport == Init /\ [][NextTransport]_vars

(***************************************************************************)
(* Properties of the playlist (SpecPlaylist)                               *)
(***************************************************************************)
\* C1: in every state of a non-empty playlist reached by any sequence of
\* LoadTracks, Next, Previous, SetCurrentIndex and shuffle toggles, the cursor
\* satisfies 0 <= currentIdx < len(tracks).
C1_CursorInRange ==
    Len(playlist.tracks) > 0 =>
        /\ 0 <= playlist.currentIdx
        /\ playlist.currentIdx < Len(playlist.tracks)

\* a shuffled Next has just put the cursor on the last track of a full list
C1_Witness ==
    /\ ret.op = "Next"
    /\ ret.out = TRUE
    /\ playlist.isShuffled
    /\ Len(playlist.tracks) = MaxTracks
    /\ playlist.currentIdx = MaxTracks - 1

\* C2: whatever the playlist was before (cursor anywhere, shuffle on or off),
\* LoadTracks(tracks) leaves exactly the given tracks, the cursor at 0 and
\* shuffle off; the state after the call is a function of the arguments alone,
\* so loading the same tracks again gives the same state.
C2_LoadTracksResets ==
    [][ret'.op = "LoadTracks" =>
           playlist' = [tracks |-> ret'.arg, currentIdx |-> 0,
                        source |-> "/path", sourceType |-> "folder",
                        isShuffled |-> FALSE]]_vars

\* a full list has just been loaded
C2_Witness ==
    /\ ret.op = "LoadTracks"
    /\ Len(ret.arg) = MaxTracks
    /\ playlist.tracks = ret.arg
    /\ playlist.currentIdx = 0

\* C3: with shuffle off, Next on the last track (or on an empty playlist)
\* returns false and changes nothing, otherwise it returns true and moves the
\* cursor by +1; Previous on the first track (or on an empty playlist) returns
\* false and changes nothing, otherwise it returns true and moves by -1.
C3_NextPreviousNoWrap ==
    [][/\ (ret'.op = "Next" /\ ~playlist.isShuffled) =>
              IF \/ Len(playlist.tracks) = 0
                 \/ playlist.currentIdx = Len(playlist.tracks) - 1
              THEN ret'.out = FALSE /\ playlist' = playlist
              ELSE /\ ret'.out = TRUE
                   /\ playlist' = [playlist EXCEPT !.currentIdx = @ + 1]
       /\ (ret'.op = "Previous" /\ ~playlist.isShuffled) =>
              IF Len(playlist.tracks) = 0 \/ playlist.currentIdx = 0
              THEN ret'.out = FALSE /\ playlist' = playlist
              ELSE /\ ret'.out = TRUE
                   /\ playlist' = [playlist EXCEPT !.currentIdx = @ - 1]]_vars

\* Previous has just been refused on the first track of a full unshuffled list
C3_Witness ==
    /\ ret.op = "Previous"
    /\ ret.out = FALSE
    /\ ~playlist.isShuffled
    /\ Len(playlist.tracks) = MaxTracks
    /\ playlist.currentIdx = 0

(***************************************************************************)
(* Properties of the playback engine (SpecPlayer)                          *)
(***************************************************************************)
EngineVars == <<player, volumeControl, positionTracker, speaker>>

C6_Pause ==
    [][ret'.op = "Pause" =>
          IF player.status.IsPlaying
          THEN /\ ret'.out = ""
               /\ ~player'.status.IsPlaying
               /\ player'.status.IsPaused
               /\ volumeControl'.ctrl.Paused
          ELSE ret'.out # "" /\ EngineVars' = EngineVars]_vars

\* Pause has just been refused on an engine that is already paused
C6_Witness ==
    /\ ret.op = "Pause"
    /\ ret.out # ""
    /\ player.status.IsPaused
    /\ ~player.status.IsPlaying

\* C7: Stop returns nil in every engine state, and GetStatus in the state it
\* leaves reports not playing, not paused and position "0:00".
C7_StopResetsStatus ==
    ret.op = "Stop" =>
        /\ ret.out = ""
        /\ ~GetStatus(Engine).IsPlaying
        /\ ~GetStatus(Engine).IsPaused
        /\ GetStatus(Engine).Position = "0:00"

\* C8: SetVolume(v) with v outside [0, 1] returns an error and GetStatus
\* reports the same volume as before the call; with v inside [0, 1] it returns
\* nil and GetStatus reports v.
C8_SetVolume ==
    [][ret'.op = "SetVolume" =>
          IF ret'.arg < 0 \/ ret'.arg > 100
          THEN /\ ret'.out # ""
               /\ GetStatus(Engine)'.Volume = GetStatus(Engine).Volume
          ELSE /\ ret'.out = ""
               /\ GetStatus(Engine)'.Volume = ret'.arg]_vars

(***************************************************************************)
(* Properties of the daemon (Spec)                                         *)
(***************************************************************************)
\* the steps a skip / back command asks for (a count below 1 counts as 1)
Requested(count) == IF count <= 0 THEN 1 ELSE count

\* C4: with shuffle off, skip N from cursor i of n tracks moves the cursor by
\* m = min(N, n-1-i), back N by m = min(N, i) (m = 0 on an empty playlist).
\* If m = 0 the response is an error and neither the playlist nor the engine
\* (its loaded track included) changes; otherwise the response is a success
\* that reports m.
C4_SkipBackClamp ==
    [][(ret'.op \in {"skip", "back"} /\ ~playlist.isShuffled) =>
          LET i == playlist.currentIdx
              n == Len(playlist.tracks)
              N == Requested(ret'.arg)
              m == IF n = 0 THEN 0
                   ELSE IF ret'.op = "skip" THEN Min(N, n - 1 - i)
                   ELSE Min(N, i)
          IN  IF m = 0
              THEN /\ ~ret'.out.Success
                   /\ playlist' = playlist
                   /\ EngineVars' = EngineVars
              ELSE /\ ret'.out.Success
                   /\ ret'.out.Args[1] = m
                   /\ playlist'.tracks = playlist.tracks
                   /\ playlist'.currentIdx =
                          IF ret'.op = "skip" THEN i + m ELSE i - m]_vars

\* a skip of more steps than tracks has ended on the last track and reports
\* the tracks actually skipped
C4_Witness ==
    /\ ret.op = "skip"
    /\ ret.arg = MaxCount
    /\ ret.out.Success
    /\ ret.out.Args[1] = MaxTracks - 1
    /\ Len(playlist.tracks) = MaxTracks
    /\ playlist.currentIdx = MaxTracks - 1

\* C9: the deferred advance that follows the exhaustion of the playing stream,
\* run with the cursor before the last track, moves the cursor to the next
\* track and leaves the engine playing that track; run with the cursor on the
\* last track (or on an empty playlist) it changes neither playlist nor engine.
C9_AutoAdvance ==
    [][ret'.op = "autoAdvance" =>
          LET i == playlist.currentIdx
              n == Len(playlist.tracks)
          IN  IF n > 0 /\ i < n - 1
              THEN /\ playlist'.currentIdx = i + 1
                   /\ player'.currentTrack = playlist.tracks[i + 2]
                   /\ player'.streamer.track = playlist.tracks[i + 2]
                   /\ player'.status.IsPlaying
                   /\ ~volumeControl'.ctrl.Paused
                   /\ speaker'.entries > 0
              ELSE playlist' = playlist /\ EngineVars' = EngineVars]_vars

\* C10: the daemon has the repeat modes Off, All and One, which the client
\* selects with the repeat command: the command is answered with success.
C10_RepeatModeSelectable ==
    ret.op = "repeat" => ret.out.Success

\* C11: the shuffle command is answered with success in every daemon state and
\* flips the playlist's shuffle flag.
C11_ShuffleCommand ==
    [][ret'.op = "shuffle" =>
          /\ ret'.out.Success
          /\ playlist'.isShuffled = ~playlist.isShuffled]_vars

\* C12: with shuffle on and more than one track, Next and Previous leave the
\* cursor on an index other than the one it was on.
C12_ShuffledMoveDistinct ==
    [][(/\ ret'.op \in {"Next", "Previous"}
        /\ playlist.isShuffled
        /\ Len(playlist.tracks) > 1) =>
          playlist'.currentIdx # playlist.currentIdx]_vars

\* C13: ToggleShuffle flips the shuffle flag, returns the new flag and leaves
\* tracks and cursor alone; applied once more to the state it leaves, it gives
\* back the state before the first call and returns the original flag.
C13_ToggleShuffleTwice ==
    [][ret'.op = "ToggleShuffle" =>
          /\ playlist'.isShuffled = ~playlist.isShuffled
          /\ ret'.out = playlist'.isShuffled
          /\ playlist'.tracks = playlist.tracks
          /\ playlist'.currentIdx = playlist.currentIdx
          /\ ToggleShuffle(playlist').p = playlist
          /\ ToggleShuffle(playlist').ok = playlist.isShuffled]_vars

\* the second of two toggles has just switched shuffle off again, on a full
\* list with the cursor on its last track
C13_Witness ==
    /\ ret.op = "ToggleShuffle"
    /\ ret.out = FALSE
    /\ ~playlist.isShuffled
    /\ Len(playlist.tracks) = MaxTracks
    /\ playlist.currentIdx = MaxTracks - 1

C20_PlayWithShuffle ==
    (/\ ret.op = "play"
     /\ ret.arg.Path # ""
     /\ ret.arg.Source # ""
     /\ ret.arg.Shuffle
     /\ ret.out.Success) => playlist.isShuffled

\* C21: a play command without a source that directly follows a successful
\* stop command and succeeds starts playback from the first track of the
\* playlist: the cursor is 0 and the engine plays that track from its start.
C21_PlayAfterStop ==
    [][(/\ ret.op = "stop"
        /\ ret.out.Success
        /\ ret'.op = "play"
        /\ ret'.arg.Path = ""
        /\ ret'.out.Success) =>
          /\ playlist'.currentIdx = 0
          /\ player'.currentTrack = playlist'.tracks[1]
          /\ player'.streamer = [track |-> playlist'.tracks[1], pos |-> 0]
          /\ player'.status.IsPlaying]_vars

\* C26: in the step in which the playing stream is exhausted the completion
\* callback fires once (one more advance is scheduled) and the engine is left
\* not playing and not paused.
C26_StreamEnd ==
    [][(/\ ret'.op = "stream"
        /\ ~volumeControl.ctrl.drained
        /\ volumeControl'.ctrl.drained) =>
          /\ server'.pending = server.pending + 1
          /\ ~player'.status.IsPlaying
          /\ ~player'.status.IsPaused]_vars

\* C27: while the status handler is between its first and its last access to
\* the playlist and the engine, no other handler and no advance task runs.
C27_OneLock ==
    [][server.status.pc > 0 =>
          ~(/\ server'.status = server.status
            /\ ret' # ret
            /\ ret'.op \in {"start", "play", "skip", "back", "autoAdvance"})]_vars

\* C28: whenever the daemon is between commands, with no advance scheduled,
\* the track loaded in the engine, if any, is the playlist's current track.
C28_EngineTrackIsCurrent ==
    (Running /\ server.pending = 0 /\ server.status.pc = 0
        /\ player.currentTrack # NoTrack) =>
        player.currentTrack = GetCurrentTrack(playlist)

C39_FailedLoad ==
    [][(ret'.op \in {"start", "play"} /\ ~ret'.out.Success) =>
          /\ ret'.out.Message = "No audio files found in the specified location" =>
                 /\ playlist'.tracks = <<>>
                 /\ playlist'.currentIdx = 0
                 /\ GetCurrentTrack(playlist') = NoTrack
                 /\ Engine' = Engine
          /\ ret'.out.Message = "Path does not exist: %s" =>
                 /\ playlist' = playlist
                 /\ Engine' = Engine]_vars

\* the empty folder has been loaded over a playlist whose track is playing
C39_Witness ==
    /\ ret.op \in {"start", "play"}
    /\ ret.out.Message = "No audio files found in the specified location"
    /\ playlist.tracks = <<>>
    /\ playlist.source = "/empty"
    /\ player.currentTrack # NoTrack
    /\ player.status.IsPlaying

(***************************************************************************)
(* Properties of the track window and the list view (SpecWindow)           *)
(***************************************************************************)
\* C14: GetTrackWindow(size), size >= 1, on a playlist of total tracks returns
\* all tracks from offset 0 if total <= size, and otherwise exactly size
\* consecutive tracks of the playlist, inside [0, total-1], with the current
\* index among them.
C14_WindowHasSize ==
    ret.op = "GetTrackWindow" =>
        LET total == Len(playlist.tracks)
            size == ret.arg
            w == ret.out
        IN  IF total <= size
            THEN w.tracks = playlist.tracks /\ w.startIdx = 0
            ELSE /\ Len(w.tracks) = size
                 /\ w.startIdx >= 0
                 /\ w.startIdx + size <= total
                 /\ w.tracks = SubSeq(playlist.tracks, w.startIdx + 1,
                                      w.startIdx + size)
                 /\ w.startIdx <= playlist.currentIdx
                 /\ playlist.currentIdx < w.startIdx + size

\* C15: GetTrackWindow(15) on more than 15 tracks always returns 15 tracks;
\* with the cursor at least 7 tracks from both ends the window starts at
\* cursor - 7 and the current track is its 8th entry, nearer to the start it
\* begins at 0 and nearer to the end it ends on the last track; in the guide's
\* playlist of 5763 tracks, cursor 2435 gives the rows 2429 to 2443.
C15_WindowCentred ==
    (/\ ret.op = "GetTrackWindow"
     /\ ret.arg = ListWindow
     /\ Len(playlist.tracks) > ListWindow) =>
        LET total == Len(playlist.tracks)
            cur == playlist.currentIdx
            half == (ListWindow - 1) \div 2
            w == ret.out
        IN  /\ Len(w.tracks) = ListWindow
            /\ w.tracks = SubSeq(playlist.tracks, w.startIdx + 1,
                                 w.startIdx + ListWindow)
            /\ w.startIdx = IF cur < half THEN 0
                            ELSE IF cur > total - 1 - half
                                 THEN total - ListWindow
                                 ELSE cur - half
            /\ (cur >= half /\ cur <= total - 1 - half) =>
                   w.tracks[half + 1] = playlist.tracks[cur + 1]
            /\ (total = GuideTotal /\ cur = GuideCursor) =>
                   /\ w.startIdx + 1 = GuideFirstRow
                   /\ w.startIdx + ListWindow = GuideFirstRow + ListWindow - 1

\* the window of 15 has just been taken in the middle of the guide's playlist
C15_Witness ==
    /\ ret.op = "GetTrackWindow"
    /\ ret.arg = ListWindow
    /\ Len(playlist.tracks) = GuideTotal
    /\ playlist.currentIdx = GuideCursor
    /\ ret.out.startIdx + 1 = GuideFirstRow
    /\ Len(ret.out.tracks) = ListWindow

\* C16: the list command answers an empty playlist with a success without
\* payload, up to 15 tracks with all of them, and more than 15 tracks with a
\* window of 15 consecutive tracks around the current one; CurrentIdx is the
\* place of the current track among the tracks returned.
C16_ListWindow ==
    ret.op = "list" =>
        LET total == Len(playlist.tracks)
            cur == playlist.currentIdx
            r == ret.out
        IN  /\ r.Success
            /\ IF total = 0 THEN r.Data.kind = "nil"
               ELSE /\ r.Data.kind = "PlaylistInfo"
                    /\ Len(r.Data.Tracks) = Min(total, ListWindow)
                    /\ r.Data.CurrentIdx >= 0
                    /\ r.Data.CurrentIdx < Len(r.Data.Tracks)
                    /\ r.Data.Tracks[r.Data.CurrentIdx + 1] =
                           playlist.tracks[cur + 1]
                    /\ total <= ListWindow => r.Data.Tracks = playlist.tracks

(***************************************************************************)
(* Properties of loading a track into the engine (SpecPlayer)              *)
(***************************************************************************)
\* C18: SetCurrentTrack leaves the engine Stopped (not playing, not paused)
\* from any prior state.
C18_LoadLeavesStopped ==
    ret.op = "SetCurrentTrack" =>
        ~player.status.IsPlaying /\ ~player.status.IsPaused

\* C18, as the engine does it: SetCurrentTrack never leaves the engine
\* paused; it leaves it Playing the new track, from its start, exactly when
\* the engine was Playing before and the new track could be opened, and
\* Stopped in every other case (it was stopped or paused, the track is nil or
\* cannot be opened: then no track is loaded).
C18_LoadKeepsPlaying ==
    [][ret'.op = "SetCurrentTrack" =>
          /\ ~player'.status.IsPaused
          /\ player'.status.IsPlaying =
                 (player.status.IsPlaying /\ player'.currentTrack # NoTrack)
          /\ player'.currentTrack \in {ret'.arg, NoTrack}
          /\ player'.currentTrack # NoTrack =>
                 /\ Readable(ret'.arg)
                 /\ player'.streamer = [track |-> ret'.arg, pos |-> 0]
          /\ player'.status.IsPlaying =>
                 /\ ~volumeControl'.ctrl.Paused
                 /\ speaker'.entries > 0]_vars

\* a track has just been loaded into a playing engine, which plays it
C18_Witness ==
    /\ ret.op = "SetCurrentTrack"
    /\ player.status.IsPlaying
    /\ player.currentTrack = ret.arg
    /\ player.streamer.pos = 0

(***************************************************************************)
(* Properties of the retry loop of play (SpecRetry)                        *)
(***************************************************************************)
\* the cursors play tries when the engine has no track: the current one and
\* the following ones, MaxAttempts at most
Attempted(p) ==
    p.currentIdx .. (Min(Len(p.tracks), p.currentIdx + MaxAttempts) - 1)

\* C22: a play command on an engine without a track and a playlist with
\* tracks tries the track at the cursor and the tracks after it, at most
\* MaxAttempts of them.  When one of them can be opened, the answer is a
\* success, the cursor is on the first such track and the engine plays it;
\* otherwise the answer is one error, the engine has no track and is not
\* playing, and the cursor has moved forward by MaxAttempts at most.
C22_PlayRetryBounded ==
    [][(/\ ret'.op = "play"
        /\ player.currentTrack = NoTrack
        /\ Len(playlist.tracks) > 0) =>
          LET good == {j \in Attempted(playlist) :
                          Readable(playlist.tracks[j + 1])}
          IN  /\ playlist'.tracks = playlist.tracks
              /\ playlist'.currentIdx >= playlist.currentIdx
              /\ playlist'.currentIdx - playlist.currentIdx <= MaxAttempts
              /\ IF good # {}
                 THEN /\ ret'.out.Success
                      /\ playlist'.currentIdx \in good
                      /\ \A j \in good : playlist'.currentIdx <= j
                      /\ player'.currentTrack =
                             playlist.tracks[playlist'.currentIdx + 1]
                      /\ player'.streamer.track = player'.currentTrack
                      /\ player'.status.IsPlaying
                 ELSE /\ ~ret'.out.Success
                      /\ player'.currentTrack = NoTrack
                      /\ ~player'.status.IsPlaying
                      /\ speaker'.entries = 0]_vars

\* play has given up after MaxAttempts unreadable tracks, with tracks left
C22_Witness ==
    /\ ret.op = "play"
    /\ ~ret.out.Success
    /\ ret.out.Message = "Failed to load any valid tracks after multiple attempts"
    /\ playlist.currentIdx = MaxAttempts
    /\ player.currentTrack = NoTrack

\* C23: when the deferred advance moves the cursor to a track that cannot be
\* opened while one of the tracks after it, within MaxAttempts entries, can,
\* the advance ends with the engine playing the track at the cursor.
C23_AutoAdvanceRetries ==
    [][(/\ ret'.op = "autoAdvance"
        /\ playlist.currentIdx + 1 < Len(playlist.tracks)
        /\ ~Readable(playlist.tracks[playlist.currentIdx + 2])
        /\ \E j \in Attempted([playlist EXCEPT !.currentIdx = @ + 1]) :
               Readable(playlist.tracks[j + 1])) =>
          /\ player'.status.IsPlaying
          /\ player'.currentTrack # NoTrack
          /\ player'.currentTrack = GetCurrentTrack(playlist')]_vars

(***************************************************************************)
(* Properties of the daemon with its ticker goroutine (SpecTracker)        *)
(***************************************************************************)
\* C24: the daemon process ends only by the exit command, whatever the
\* interleaving of the commands, the ticker goroutine and the audio thread.
C24_OnlyExitTerminates ==
    server.exited => ret.op = "exit"

\* C33: after any sequence of StartTracking and StopTracking, interleaved in
\* any way with the ticks, at most one sampling goroutine exists, and none is
\* left once tracking has been stopped.
C33_OneSampler ==
    /\ positionTracker.sel + positionTracker.upd <= 1
    /\ ~positionTracker.ticker => positionTracker.sel = 0

(***************************************************************************)
(* Properties of the listener and its connections (SpecTransport)          *)
(***************************************************************************)
\* C34: commands on distinct connections reach the handler in the order in
\* which their connections were accepted: the connection whose command is
\* handled is always the oldest accepted one still waiting.
C34_ArrivalOrder ==
    [][Len(server'.conns) < Len(server.conns) =>
           server'.conns = Tail(server.conns)]_vars

\* C36: no interleaving of the handlers and the goroutines keeps a command
\* from its response: the process does not end while the command of an
\* accepted connection has not been answered.
C36_EveryCommandAnswered ==
    server.exited => server.conns = <<>>

(***************************************************************************)
(* Properties of the engine without a stream (SpecPlayer)                  *)
(***************************************************************************)
\* C25: whenever the engine has no stream loaded, GetStatus reports position
\* "0:00" and duration "0:00".
C25_NoStreamZeroStatus ==
    player.streamer = NoStream =>
        /\ GetStatus(Engine).Position = "0:00"
        /\ GetStatus(Engine).Duration = "0:00"

\* C35: IsPlaying and IsPaused are never both true, and IsPaused is true
\* only if a Pause succeeded since the last Play, Stop or track load: it
\* becomes true by a successful Pause only, and Stop, a track load and a
\* successful Play make it false.
C35_PausedOnlyByPause ==
    [][/\ ~(IsPlaying(Engine)' /\ IsPaused(Engine)')
       /\ IsPaused(Engine)' =>
              \/ ret'.op = "Pause" /\ ret'.out = ""
              \/ /\ IsPaused(Engine)
                 /\ ret'.op \notin {"Stop", "SetCurrentTrack"}
                 /\ ~(ret'.op = "Play" /\ ret'.out = "")]_vars

C35_Witness ==
    /\ ret.op = "Pause" /\ ret.out = ""
    /\ IsPaused(Engine) /\ ~IsPlaying(Engine)

\* C40: the gain of a newly loaded track is that of the most recent
\* successfully set volume, initially 1.0: a SetVolume that returns nil stores
\* its value, every other call (track change, Play, Pause, Stop, a rejected
\* SetVolume) leaves the stored value unchanged, and a load wraps the new
\* stream with the gain of the stored value, silent when the value is 0.
C40_GainOfNewTrack ==
    [][/\ volumeControl'.volume =
              IF ret'.op = "SetVolume" /\ ret'.out = "" THEN ret'.arg
              ELSE volumeControl.volume
       /\ (ret'.op = "SetCurrentTrack" /\ player'.streamer # NoStream) =>
              volumeControl'.volumeStreamer =
                  [nil |-> FALSE,
                   Volume |-> BeepVolume(volumeControl.volume),
                   Silent |-> (volumeControl.volume = 0)]]_vars

\* a track has been loaded after the volume was set to 0
C40_Witness ==
    /\ ret.op = "SetCurrentTrack"
    /\ player.streamer # NoStream
    /\ volumeControl.volume = 0
    /\ volumeControl.volumeStreamer.Silent
    /\ volumeControl.volumeStreamer.Volume = BeepVolume(0)

\* C29: the loaded stream is attached to the audio output at most once.
C29_AttachedOnce ==
    speaker.entries <= 1

\* C30: no reader can observe a closed stream: the mixer holds no control
\* that is not paused over a closed stream, and the position tracker does not
\* sample one.
C30_NoReaderOfClosedStream ==
    /\ ~(/\ speaker.entries > 0
         /\ ~volumeControl.ctrl.nil
         /\ volumeControl.ctrl.closed
         /\ ~volumeControl.ctrl.Paused)
    /\ ~(/\ speaker.entries > 0
         /\ ~speaker.orphan.nil
         /\ speaker.orphan.closed
         /\ ~speaker.orphan.Paused)
    /\ ~(/\ positionTracker.streamer = "closed"
         /\ positionTracker.ticker
         /\ positionTracker.isPlaying)

(***************************************************************************)
(* Properties of the file handles (SpecLoad)                               *)
(***************************************************************************)
\* C31: at most one file is open at any time, the one of the loaded stream:
\* a track change closes the previous file, and a load that fails (the file
\* cannot be opened, cannot be decoded, or the audio output cannot be
\* initialised) leaves no file open and no stream loaded.
C31_OneHandle ==
    /\ player.handles = IF player.streamer.track # NoTrack THEN 1 ELSE 0
    /\ (ret.op = "SetCurrentTrack" /\ player.currentTrack = NoTrack) =>
           player.streamer = NoStream /\ player.handles = 0

\* a decodable file has just failed to load on hardware that does not
\* initialise, after an earlier stream was closed
C31_Witness ==
    /\ ret.op = "SetCurrentTrack"
    /\ Readable(ret.arg)
    /\ player.currentTrack = NoTrack
    /\ ~player.audioSystem.initialized
    /\ player.handles = 0

(***************************************************************************)
(* Properties of the status handler (SpecStatus)                           *)
(***************************************************************************)
\* C17: every status response is a success; it either has no payload or it
\* describes one state of one playlist: 1 <= TrackNumber <= TotalTracks,
\* TotalTracks is the length of the playlist loaded from Source and Filename
\* is that playlist's track at cursor TrackNumber - 1, whatever ran
\* concurrently with the status handler.
C17_StatusSnapshot ==
    ret.op = "status" =>
        /\ ret.out.Success
        /\ \/ ret.out.Data.kind = "nil"
           \/ LET t == ret.out.Data
              IN  /\ 1 <= t.TrackNumber
                  /\ t.TrackNumber <= t.TotalTracks
                  /\ t.TotalTracks = Len(FolderFiles(t.Source))
                  /\ t.Filename = FolderFiles(t.Source)[t.TrackNumber]

====
